---- MODULE Spec2Model ----
(***************************************************************************)
(* Alembic revision 904464ea4041: resolve duplicate names / version        *)
(* numbers of pipeline_run, pipeline, model and model_version rows, then   *)
(* add the unique constraints (upgrade); drop them again (downgrade).      *)
(*                                                                         *)
(* The database is a function from table name to the sequence of its rows  *)
(* in the order a select returns them.  Every call the migration makes on  *)
(* a collaborator (connection.execute, logger.warning, batch_op) is        *)
(* appended to `calls`.                                                    *)
(***************************************************************************)
EXTENDS Integers, Sequences, FiniteSets, TLC

VARIABLES db, pc, step, table_i, result, row_i, existing, existing_names,
          existing_numbers, needs_update, fix_i, con_i, constraints, calls,
          run

vars == <<db, pc, step, table_i, result, row_i, existing, existing_names,
          existing_numbers, needs_update, fix_i, con_i, constraints, calls,
          run>>

(***************************************************************************)
(* Bounds of the model.                                                    *)
(***************************************************************************)
\* rows in the whole database when several tables are populated
MaxRows == 2
\* rows of one simple-entity table when it is the only populated table
MaxSimpleRows == 4
\* rows of model_version when it is the only populated table
MaxVersionRows == 3

(***************************************************************************)
(* Input pools.                                                            *)
(***************************************************************************)
IdPrefixes == {"aaaaaa", "bbbbbb"}
Names == {"p", "p_aaaaaa"}
Workspaces == {"w1", "w2"}
VersionNames == {"1", "2", "a"}
VersionNumbers == {1, 2}
Models == {"m1", "m2"}

(***************************************************************************)
(* Pure helpers.                                                           *)
(***************************************************************************)
Min(a, b) == IF a <= b THEN a ELSE b

\* max(existing_numbers[model_id])
Max(S) == CHOOSE m \in S : \A x \in S : x <= m

Digits == <<"0", "1", "2", "3", "4", "5", "6", "7", "8", "9">>

\* str(number): the decimal rendering of an int
RECURSIVE Str(_)
Str(n) ==
    IF n < 0 THEN "-" \o Str(0 - n)
    ELSE IF n < 10 THEN Digits[n + 1]
    ELSE Str(n \div 10) \o Digits[(n % 10) + 1]

\* the slice bound of id_[:6]
IdPrefixLen == 6

\* id_[:6]
IdPrefix(id) == SubSeq(id, 1, Min(IdPrefixLen, Len(id)))

\* f"{name}_{id_[:6]}"
NewName(name, id) == name \o "_" \o IdPrefix(id)

\* the primary key of the k-th row of a table: a prefix and a unique tail
MkId(prefix, k) == prefix \o "-" \o Str(k)

SimpleTablesDup == <<"pipeline_run", "pipeline", "pipeline_run">>

\* for table_name in ["pipeline_run", "pipeline", "model"]
SimpleTables == <<"pipeline_run", "pipeline", "model">>

VersionTable == "model_version"

\* meta.reflect(only=("pipeline_run", "pipeline", "model", "model_version"))
Tables == {"pipeline_run", "pipeline", "model", "model_version"}


(***************************************************************************)
(* Rows and tables the migration can find.                                 *)
(***************************************************************************)
SimpleFields == IdPrefixes \X Names \X Workspaces

VersionFields == IdPrefixes \X VersionNames \X VersionNumbers \X Models

\* the tables of n (id, name, workspace_id) rows, primary keys distinct
SimpleContents(n) ==
    { [k \in 1..n |-> [id |-> MkId(f[k][1], k), name |-> f[k][2],
                       workspace_id |-> f[k][3]]] : f \in [1..n -> SimpleFields] }

\* the tables of n (id, name, number, model_id) rows, primary keys distinct
VersionContents(n) ==
    { [k \in 1..n |-> [id |-> MkId(f[k][1], k), name |-> f[k][2],
                       number |-> f[k][3], model_id |-> f[k][4]]] :
      f \in [1..n -> VersionFields] }

\* how many rows each table holds (pipeline_run, pipeline, model,
\* model_version): a few rows spread over the four tables
MixedShapes ==
    { s \in [1..4 -> 0..MaxRows] : s[1] + s[2] + s[3] + s[4] <= MaxRows }

\* one of the simple-entity tables alone holds rows
SimpleShapes ==
    { s \in [1..4 -> 0..MaxSimpleRows] :
        /\ s[4] = 0
        /\ Cardinality({k \in 1..3 : s[k] > 0}) <= 1 }

\* model_version alone holds rows
VersionShapes ==
    { s \in [1..4 -> 0..MaxVersionRows] : s[1] = 0 /\ s[2] = 0 /\ s[3] = 0 }

EmptySets(keys) == [k \in keys |-> {}]

\* the body of upgrade(): resolve the duplicates, then add the constraints
UpgradeBodySwapped == <<"create", "resolve">>

UpgradeBody == <<"resolve", "create">>

\* the constraints upgrade() creates, in the order of its batch operations
CreateOrder ==
    << [table |-> "pipeline", name |-> "unique_pipeline_name_in_workspace",
        columns |-> {"name", "workspace_id"}],
       [table |-> "pipeline_run", name |-> "unique_run_name_in_workspace",
        columns |-> {"name", "workspace_id"}],
       [table |-> "model", name |-> "unique_model_name_in_workspace",
        columns |-> {"name", "workspace_id"}],
       [table |-> "model_version", name |-> "unique_version_for_model_id",
        columns |-> {"name", "model_id"}],
       [table |-> "model_version",
        name |-> "unique_version_number_for_model_id",
        columns |-> {"number", "model_id"}] >>

DropOrderForward ==
    << "unique_pipeline_name_in_workspace", "unique_run_name_in_workspace",
       "unique_model_name_in_workspace", "unique_version_for_model_id",
       "unique_version_number_for_model_id" >>

\* the constraints downgrade() drops, in the order of its batch operations
DropOrder ==
    << "unique_version_number_for_model_id", "unique_version_for_model_id",
       "unique_model_name_in_workspace", "unique_run_name_in_workspace",
       "unique_pipeline_name_in_workspace" >>

\* the database holds rows as one of `shapes` says
Populated(shapes) ==
    \E s \in shapes :
      \E r1 \in SimpleContents(s[1]), r2 \in SimpleContents(s[2]),
         r3 \in SimpleContents(s[3]), v \in VersionContents(s[4]) :
           db = [t \in Tables |->
                   IF t = SimpleTables[1] THEN r1
                   ELSE IF t = SimpleTables[2] THEN r2
                   ELSE IF t = SimpleTables[3] THEN r3
                   ELSE v]

\* alembic is about to run upgrade()
AtUpgrade ==
    /\ pc = "upgrade"
    /\ step = 1
    /\ table_i = 1
    /\ result = <<>>
    /\ row_i = 1
    /\ existing = EmptySets(Workspaces)
    /\ existing_names = EmptySets(Models)
    /\ existing_numbers = EmptySets(Models)
    /\ needs_update = <<>>
    /\ fix_i = 1
    /\ con_i = 1
    /\ constraints = {}
    /\ calls = <<>>
    /\ run = 1

Init == Populated(MixedShapes) /\ AtUpgrade

InitSimple == Populated(SimpleShapes) /\ AtUpgrade

\* resolve_duplicate_entities has gone through the (empty) tables of runs,
\* pipelines and models and is about to select the model versions
InitVersion ==
    /\ Populated(VersionShapes)
    /\ pc = "select_versions"
    /\ step = 1
    /\ table_i = Len(SimpleTables)
    /\ result = <<>>
    /\ row_i = 1
    /\ existing = EmptySets(Workspaces)
    /\ existing_names = EmptySets(Models)
    /\ existing_numbers = EmptySets(Models)
    /\ needs_update = <<>>
    /\ fix_i = 1
    /\ con_i = 1
    /\ constraints = {}
    /\ calls = [k \in 1..Len(SimpleTables) |->
                  [op |-> "select", table |-> SimpleTables[k]]]
    /\ run = 1

(***************************************************************************)
(* Collaborators: the connection, the logger, the batch operations.        *)
(***************************************************************************)
\* sa.update(table).where(table.c.id == id_).values(**values)
UpdateRows(rows, id, values) ==
    [k \in DOMAIN rows |->
        IF rows[k].id = id
        THEN [c \in DOMAIN rows[k] |->
                IF c \in DOMAIN values THEN values[c] ELSE rows[k][c]]
        ELSE rows[k]]

SelectCall(t) == [op |-> "select", table |-> t]

UpdateCall(t, id, values) ==
    [op |-> "update", table |-> t, id |-> id, values |-> values]

WarningCall(t, old, new) ==
    [op |-> "warning", table |-> t, old |-> old, new |-> new]

CreateCall(c) == [op |-> "create_unique_constraint", table |-> c.table,
                  name |-> c.name]

DropCall(n) == [op |-> "drop_constraint", name |-> n]

\* a unique constraint on `columns` can be created on `rows`
Unique(rows, columns) ==
    \A i, j \in DOMAIN rows :
        i # j => \E c \in columns : rows[i][c] # rows[j][c]

(***************************************************************************)
(* resolve_duplicate_entities: runs, pipelines and models.                 *)
(***************************************************************************)
\* upgrade() calls resolve_duplicate_entities(): bind, reflect
CallResolve ==
    /\ pc = "upgrade"
    /\ step <= Len(UpgradeBody)
    /\ UpgradeBody[step] = "resolve"
    /\ pc' = "select"
    /\ table_i' = 1
    /\ UNCHANGED <<db, step, result, row_i, existing, existing_names,
                   existing_numbers, needs_update, fix_i, con_i, constraints,
                   calls, run>>

\* result = connection.execute(sa.select(id, name, workspace_id)).all()
SelectTable ==
    /\ pc = "select"
    /\ result' = db[SimpleTables[table_i]]
    /\ existing' = EmptySets(Workspaces)
    /\ row_i' = 1
    /\ calls' = Append(calls, SelectCall(SimpleTables[table_i]))
    /\ pc' = "rows"
    /\ UNCHANGED <<db, step, table_i, existing_names, existing_numbers,
                   needs_update, fix_i, con_i, constraints, run>>

\* name in names_in_workspace
IsDuplicate(name, names_in_workspace) == name \in names_in_workspace

\* one iteration of: for id_, name, workspace_id in result
ResolveRow ==
    /\ pc = "rows"
    /\ row_i <= Len(result)
    /\ LET t == SimpleTables[table_i]
           row == result[row_i]
           names_in_workspace == existing[row.workspace_id]
           new_name == NewName(row.name, row.id)
       IN  IF IsDuplicate(row.name, names_in_workspace)
           THEN /\ calls' = calls \o
                      << WarningCall(t, row.name, new_name),
                         UpdateCall(t, row.id, [name |-> new_name]) >>
                /\ db' = [db EXCEPT
                            ![t] = UpdateRows(@, row.id, [name |-> new_name])]
                /\ existing' = [existing EXCEPT
                                  ![row.workspace_id] = @ \cup {new_name}]
           ELSE /\ existing' = [existing EXCEPT
                                  ![row.workspace_id] = @ \cup {row.name}]
                /\ UNCHANGED <<db, calls>>
    /\ row_i' = row_i + 1
    /\ UNCHANGED <<pc, step, table_i, result, existing_names,
                   existing_numbers, needs_update, fix_i, con_i, constraints,
                   run>>

\* the rows of the table are exhausted: next table, or on to model versions
EndTable ==
    /\ pc = "rows"
    /\ row_i > Len(result)
    /\ IF table_i < Len(SimpleTables)
       THEN table_i' = table_i + 1 /\ pc' = "select"
       ELSE table_i' = table_i /\ pc' = "select_versions"
    /\ UNCHANGED <<db, step, result, row_i, existing, existing_names,
                   existing_numbers, needs_update, fix_i, con_i, constraints,
                   calls, run>>

(***************************************************************************)
(* resolve_duplicate_entities: model versions, detection then fix-up.      *)
(***************************************************************************)
\* result = connection.execute(sa.select(id, name, number, model_id)).all()
SelectVersions ==
    /\ pc = "select_versions"
    /\ result' = db[VersionTable]
    /\ existing_names' = EmptySets(Models)
    /\ existing_numbers' = EmptySets(Models)
    /\ needs_update' = <<>>
    /\ row_i' = 1
    /\ calls' = Append(calls, SelectCall(VersionTable))
    /\ pc' = "detect"
    /\ UNCHANGED <<db, step, table_i, existing, fix_i, con_i, constraints,
                   run>>

\* one iteration of: for id_, name, number, model_id in result
DetectRow ==
    /\ pc = "detect"
    /\ row_i <= Len(result)
    /\ LET row == result[row_i]
           needs_new_name == row.name \in existing_names[row.model_id]
           needs_new_number == row.number \in existing_numbers[row.model_id]
       IN  /\ needs_update' =
                 IF needs_new_name \/ needs_new_number
                 THEN Append(needs_update,
                             [id |-> row.id, name |-> row.name,
                              number |-> row.number,
                              model_id |-> row.model_id,
                              needs_new_name |-> needs_new_name,
                              needs_new_number |-> needs_new_number])
                 ELSE needs_update
           /\ existing_names' = [existing_names EXCEPT
                                   ![row.model_id] = @ \cup {row.name}]
           /\ existing_numbers' = [existing_numbers EXCEPT
                                     ![row.model_id] = @ \cup {row.number}]
    /\ row_i' = row_i + 1
    /\ UNCHANGED <<db, pc, step, table_i, result, existing, fix_i, con_i,
                   constraints, calls, run>>

\* detection is over: on to the loop over needs_update
EndDetect ==
    /\ pc = "detect"
    /\ row_i > Len(result)
    /\ pc' = "fix"
    /\ fix_i' = 1
    /\ UNCHANGED <<db, step, table_i, result, row_i, existing,
                   existing_names, existing_numbers, needs_update, con_i,
                   constraints, calls, run>>

\* is_numeric_version = str(number) == name
IsNumericVersion(u) == Str(u.number) = u.name

NextNumericVersionStale(numbers) == Max(numbers)

\* next_numeric_version = max(existing_numbers[model_id]) + 1
NextNumericVersion(numbers) == Max(numbers) + 1

FixValuesUncoupled(u, next) ==
    CASE u.needs_new_name /\ u.needs_new_number ->
             [name |-> NewName(u.name, u.id), number |-> next]
      [] u.needs_new_name /\ ~u.needs_new_number ->
             [name |-> NewName(u.name, u.id)]
      [] OTHER -> [number |-> next]

\* the dict `values` built for one staged row
FixValues(u, next) ==
    CASE IsNumericVersion(u) -> [number |-> next, name |-> Str(next)]
      [] ~IsNumericVersion(u) /\ u.needs_new_name /\ u.needs_new_number ->
             [name |-> NewName(u.name, u.id), number |-> next]
      [] ~IsNumericVersion(u) /\ u.needs_new_name /\ ~u.needs_new_number ->
             [name |-> NewName(u.name, u.id)]
      [] OTHER -> [number |-> next]

\* the logger.warning calls made for one staged row
FixWarnings(u, values) ==
    IF IsNumericVersion(u) \/ u.needs_new_name
    THEN << WarningCall(VersionTable, u.name, values.name) >>
    ELSE << >>

\* one iteration of the loop over needs_update
FixRow ==
    /\ pc = "fix"
    /\ fix_i <= Len(needs_update)
    /\ LET u == needs_update[fix_i]
           next_numeric_version ==
               NextNumericVersion(existing_numbers[u.model_id])
           values == FixValues(u, next_numeric_version)
       IN  /\ existing_numbers' =
                 IF "number" \in DOMAIN values
                 THEN [existing_numbers EXCEPT
                         ![u.model_id] = @ \cup {values.number}]
                 ELSE existing_numbers
           /\ calls' = calls \o FixWarnings(u, values) \o
                           << UpdateCall(VersionTable, u.id, values) >>
           /\ db' = [db EXCEPT
                       ![VersionTable] = UpdateRows(@, u.id, values)]
    /\ fix_i' = fix_i + 1
    /\ UNCHANGED <<pc, step, table_i, result, row_i, existing,
                   existing_names, needs_update, con_i, constraints, run>>

\* resolve_duplicate_entities returns to its caller
EndFix ==
    /\ pc = "fix"
    /\ fix_i > Len(needs_update)
    /\ pc' = "upgrade"
    /\ step' = step + 1
    /\ UNCHANGED <<db, table_i, result, row_i, existing, existing_names,
                   existing_numbers, needs_update, fix_i, con_i, constraints,
                   calls, run>>

(***************************************************************************)
(* upgrade(): the unique constraints.                                      *)
(***************************************************************************)
\* batch_op.create_unique_constraint(name, columns) on a table whose rows
\* are unique in those columns
CreateConstraint ==
    /\ pc = "upgrade"
    /\ step <= Len(UpgradeBody)
    /\ UpgradeBody[step] = "create"
    /\ LET c == CreateOrder[con_i]
       IN  /\ Unique(db[c.table], c.columns)
           /\ constraints' = constraints \cup {c.name}
           /\ calls' = Append(calls, CreateCall(c))
    /\ IF con_i < Len(CreateOrder)
       THEN con_i' = con_i + 1 /\ step' = step
       ELSE con_i' = 1 /\ step' = step + 1
    /\ UNCHANGED <<db, pc, table_i, result, row_i, existing, existing_names,
                   existing_numbers, needs_update, fix_i, run>>

\* batch_op.create_unique_constraint(name, columns) on a table that still
\* holds a duplicate: the database refuses, the migration raises
CreateConstraintFails ==
    /\ pc = "upgrade"
    /\ step <= Len(UpgradeBody)
    /\ UpgradeBody[step] = "create"
    /\ LET c == CreateOrder[con_i]
       IN  /\ ~Unique(db[c.table], c.columns)
           /\ calls' = Append(calls, CreateCall(c))
    /\ pc' = "error"
    /\ UNCHANGED <<db, step, table_i, result, row_i, existing,
                   existing_names, existing_numbers, needs_update, fix_i,
                   con_i, constraints, run>>

\* upgrade() returns
EndUpgrade ==
    /\ pc = "upgrade"
    /\ step > Len(UpgradeBody)
    /\ pc' = "upgraded"
    /\ UNCHANGED <<db, step, table_i, result, row_i, existing,
                   existing_names, existing_numbers, needs_update, fix_i,
                   con_i, constraints, calls, run>>

(***************************************************************************)
(* downgrade().                                                            *)
(***************************************************************************)
\* batch_op.drop_constraint(name, type_="unique")
DropConstraint ==
    /\ pc \in {"upgraded", "downgrade"}
    /\ LET n == DropOrder[con_i]
       IN  /\ n \in constraints
           /\ constraints' = constraints \ {n}
           /\ calls' = Append(calls, DropCall(n))
    /\ IF con_i < Len(DropOrder)
       THEN con_i' = con_i + 1 /\ pc' = "downgrade"
       ELSE con_i' = 1 /\ pc' = "downgraded"
    /\ UNCHANGED <<db, step, table_i, result, row_i, existing,
                   existing_names, existing_numbers, needs_update, fix_i,
                   run>>

(***************************************************************************)
(* A second call of resolve_duplicate_entities on the rows the first left. *)
(***************************************************************************)
\* the first call has returned: call again, and watch the calls it makes
CallResolveAgain ==
    /\ pc = "upgrade"
    /\ step = 2
    /\ run = 1
    /\ run' = 2
    /\ pc' = "select"
    /\ table_i' = 1
    /\ calls' = << >>
    /\ UNCHANGED <<db, step, result, row_i, existing, existing_names,
                   existing_numbers, needs_update, fix_i, con_i, constraints>>

(***************************************************************************)
(* Specifications.                                                         *)
(***************************************************************************)
Next ==
    \/ CallResolve
    \/ SelectTable
    \/ ResolveRow
    \/ EndTable
    \/ SelectVersions
    \/ DetectRow
    \/ EndDetect
    \/ FixRow
    \/ EndFix
    \/ CreateConstraint
    \/ CreateConstraintFails
    \/ EndUpgrade
    \/ DropConstraint

\* upgrade(), then possibly downgrade()
Spec == Init /\ [][Next]_vars

NextTwice ==
    \/ CallResolve
    \/ SelectTable
    \/ ResolveRow
    \/ EndTable
    \/ SelectVersions
    \/ DetectRow
    \/ EndDetect
    \/ FixRow
    \/ EndFix
    \/ CallResolveAgain

\* resolve_duplicate_entities() called twice in a row
SpecTwice == Init /\ [][NextTwice]_vars

\* the first loop of resolve_duplicate_entities
NextSimple ==
    \/ CallResolve
    \/ SelectTable
    \/ ResolveRow
    \/ EndTable

SpecSimple == InitSimple /\ [][NextSimple]_vars

\* the model-version part of resolve_duplicate_entities
NextVersion ==
    \/ SelectVersions
    \/ DetectRow
    \/ EndDetect
    \/ FixRow
    \/ EndFix

SpecVersion == InitVersion /\ [][NextVersion]_vars

(***************************************************************************)
(* Vocabulary of the properties.                                           *)
(***************************************************************************)
IsSelect(c) == c.op = "select"

IsUpdate(c) == c.op = "update"

IsWarning(c) == c.op = "warning"

IsCreate(c) == c.op = "create_unique_constraint"

IsDrop(c) == c.op = "drop_constraint"

IsRowCall(c) == IsSelect(c) \/ IsUpdate(c)

IsSimpleTable(t) == \E k \in DOMAIN SimpleTables : SimpleTables[k] = t

Reverse(s) == [k \in 1..Len(s) |-> s[Len(s) + 1 - k]]

NamesOf(s) == [k \in 1..Len(s) |-> s[k].name]

Count(s, Test(_)) == Len(SelectSeq(s, Test))

\* the loop over the rows of the current simple-entity table is over
TableDone == pc = "rows" /\ row_i > Len(result)

\* the fix-up loop over needs_update is over
FixDone == pc = "fix" /\ fix_i > Len(needs_update)

\* the table the first loop is working on, as it is now in the database
Current == db[SimpleTables[table_i]]

SamePair(a, b) == a.name = b.name /\ a.workspace_id = b.workspace_id

\* row i of `result` is the earliest row of an original (name, workspace_id)
\* pair that a later row of `result` shares
EarliestOfDuplicatedPair(i) ==
    /\ \A k \in 1..(i - 1) : ~SamePair(result[k], result[i])
    /\ \E j \in (i + 1)..Len(result) : SamePair(result[j], result[i])

\* the model_id of the model_version row with this id
GroupOf(id) == (CHOOSE k \in DOMAIN result : result[k].id = id)

IsNumberUpdate(c) ==
    IsUpdate(c) /\ c.table = VersionTable /\ "number" \in DOMAIN c.values

(***************************************************************************)
(* C1.  After resolve_duplicate_entities has gone through a simple-entity  *)
(* table, no two distinct rows have the same (name, workspace_id) pair.    *)
(***************************************************************************)
C1_SimpleUnique ==
    TableDone => Unique(Current, {"name", "workspace_id"})

(***************************************************************************)
(* C2.  After detection and fix-up, no two distinct model_version rows of  *)
(* the same model_id have the same name.                                   *)
(***************************************************************************)
C2_VersionNameUnique ==
    FixDone => Unique(db[VersionTable], {"name", "model_id"})

C4_FirstSeenWins ==
    pc = "rows" =>
      \A i \in 1..(row_i - 1) :
        EarliestOfDuplicatedPair(i) =>
          /\ Current[i].name = result[i].name
          /\ \A j \in DOMAIN calls :
               IsUpdate(calls[j]) =>
                 ~(calls[j].table = SimpleTables[table_i]
                     /\ calls[j].id = result[i].id)

(***************************************************************************)
(* C5.  A second run of resolve_duplicate_entities on the rows the first   *)
(* run left issues no row update.                                          *)
(***************************************************************************)
C5_SecondRunIssuesNoUpdate ==
    run = 2 => \A j \in DOMAIN calls : ~IsUpdate(calls[j])

(***************************************************************************)
(* C6.  In upgrade(), every select and every row update is issued before   *)
(* the first create_unique_constraint; the selects and updates of the      *)
(* simple-entity tables come before those of model_version; and the four   *)
(* tables have been read by the time a constraint is created.              *)
(***************************************************************************)
C6_ResolveBeforeConstraints ==
    /\ \A i, j \in DOMAIN calls :
         (IsRowCall(calls[i]) /\ IsCreate(calls[j])) => i < j
    /\ \A i, j \in DOMAIN calls :
         (/\ IsRowCall(calls[i]) /\ IsSimpleTable(calls[i].table)
          /\ IsRowCall(calls[j]) /\ calls[j].table = VersionTable) => i < j
    /\ (\E j \in DOMAIN calls : IsCreate(calls[j])) =>
         \A t \in Tables :
           \E i \in DOMAIN calls : IsSelect(calls[i]) /\ calls[i].table = t

\* upgrade() has returned after renaming a row and adding the constraints
C6_Witness ==
    /\ pc = "upgraded"
    /\ \E i \in DOMAIN calls : IsUpdate(calls[i])
    /\ Cardinality(constraints) = Len(CreateOrder)

(***************************************************************************)
(* C7.  Once downgrade() has returned, the constraints it dropped are the  *)
(* ones upgrade() created, in the reverse order, none is left, no row      *)
(* update was issued after the constraints were created, and no step of    *)
(* downgrade() changes a row.                                              *)
(***************************************************************************)
C7_DowngradeDropsOnly ==
    /\ [](pc = "downgraded" =>
            /\ NamesOf(SelectSeq(calls, IsDrop)) =
                 Reverse(NamesOf(SelectSeq(calls, IsCreate)))
            /\ constraints = {}
            /\ \A i, j \in DOMAIN calls :
                 (IsCreate(calls[i]) /\ IsUpdate(calls[j])) => j < i)
    /\ [][(pc = "upgraded" \/ pc = "downgrade") => db' = db]_vars

\* downgrade() has returned, the constraints are gone, and a row that
\* upgrade() renamed still has the name upgrade() gave it
C7_Witness ==
    /\ pc = "downgraded"
    /\ constraints = {}
    /\ \E j \in DOMAIN calls :
         /\ IsUpdate(calls[j])
         /\ "name" \in DOMAIN calls[j].values
         /\ \E k \in DOMAIN db[calls[j].table] :
              /\ db[calls[j].table][k].id = calls[j].id
              /\ db[calls[j].table][k].name = calls[j].values.name

(***************************************************************************)
(* C8.  Fixing a staged model_version row whose original name is the       *)
(* decimal string of its original number sets its number to the maximum    *)
(* of the seen numbers of its model_id plus one, and its name to the       *)
(* decimal string of that number, whichever flag staged it.                *)
(***************************************************************************)
C8_NumericCoupling ==
    [][(/\ pc = "fix"
        /\ fix_i <= Len(needs_update)
        /\ needs_update[fix_i].name = Str(needs_update[fix_i].number))
       => LET u == needs_update[fix_i]
              n == Max(existing_numbers[u.model_id]) + 1
          IN  \A k \in DOMAIN result :
                result[k].id = u.id =>
                  /\ db'[VersionTable][k].number = n
                  /\ db'[VersionTable][k].name = Str(n)]_vars

\* a numeric-form row staged for its name alone has been fixed
C8_Witness ==
    /\ pc = "fix"
    /\ \E f \in 1..(fix_i - 1) :
         LET u == needs_update[f]
         IN  /\ u.name = Str(u.number)
             /\ u.needs_new_name
             /\ ~u.needs_new_number
             /\ \E k \in DOMAIN result :
                  /\ result[k].id = u.id
                  /\ db[VersionTable][k].number # u.number
                  /\ db[VersionTable][k].name =
                       Str(db[VersionTable][k].number)

(***************************************************************************)
(* C9.  Every row update is issued right after a logger.warning of its     *)
(* own: as many warnings as updates, each update preceded by one.          *)
(***************************************************************************)
C9_EveryUpdateLogged ==
    /\ Count(calls, IsUpdate) = Count(calls, IsWarning)
    /\ \A j \in DOMAIN calls :
         IsUpdate(calls[j]) => j > 1 /\ IsWarning(calls[j - 1])

(***************************************************************************)
(* C10 as claimed.  All the selects of a run come before its first row     *)
(* update.                                                                 *)
(***************************************************************************)
C10_AllReadsBeforeWrites ==
    \A i, j \in DOMAIN calls :
      (IsSelect(calls[i]) /\ IsUpdate(calls[j])) => i < j

(***************************************************************************)
(* C10 as amended.  Each table is read once, before the first update of    *)
(* that table, and only a table that has been read is updated; the         *)
(* updates are issued one at a time.                                       *)
(***************************************************************************)
C10_TableReadBeforeItsWrites ==
    /\ [](/\ \A i, j \in DOMAIN calls :
               (/\ IsSelect(calls[i]) /\ IsUpdate(calls[j])
                /\ calls[i].table = calls[j].table) => i < j
          /\ \A j \in DOMAIN calls :
               IsUpdate(calls[j]) =>
                 \E i \in 1..(j - 1) :
                   IsSelect(calls[i]) /\ calls[i].table = calls[j].table)
    /\ [][Count(calls', IsUpdate) <= Count(calls, IsUpdate) + 1]_vars

\* a table is read after a row of an earlier table has been updated
C10_Witness ==
    \E i, j \in DOMAIN calls :
      /\ i < j
      /\ IsUpdate(calls[i])
      /\ IsSelect(calls[j])
      /\ calls[i].table # calls[j].table

====
